---- MODULE Spec2Model ----
(***************************************************************************)
(* A model of RustDatabase: the key-polymorphic in-memory store             *)
(* (src/src/database.rs), the record/value model (src/src/domain.rs) and    *)
(* the command layer (src/src/commands.rs), the parser                      *)
(* (src/src/queries.rs) and the command loop with its history and script    *)
(* files (src/src/main.rs).                                                 *)
(*                                                                          *)
(* Representation                                                           *)
(*   String   a sequence of byte codes ("ab" is <<97, 98>>); Rust compares  *)
(*            strings byte-lexicographically.                               *)
(*   Value    [tag |-> "Int" | "String" | "Bool" | "Float", v |-> payload]. *)
(*            A Float payload is the number of tenths (15 is 1.5); the      *)
(*            literals of the query language are finite decimals, so no NaN *)
(*            is ever constructed.                                          *)
(*   HashMap  a function on the set of its keys.  Its iteration order is    *)
(*            unspecified (std RandomState), so a loop over a HashMap is a  *)
(*            choice over all orders.                                       *)
(*   BTreeMap a function on the set of its keys, iterated in ascending key  *)
(*            order.                                                        *)
(***************************************************************************)
EXTENDS Integers, Sequences, FiniteSets, TLC

VARIABLES
    kt,       \* the AnyDatabase variant: "Int" (Database<i64>) or "String"
    tables,   \* Database.tables : name -> Table
    query,    \* the Query of the current line (NoQuery: none, or rejected)
    result,   \* what execute, or process_command, returned for it
    before,   \* Database.tables as it was when the current line was read
    nIns,     \* per table name: number of successful Inserts so far
    nDel,     \* per table name: number of successful Deletes so far
    history,  \* main's history : Vec<String>, one entry per line
    files,    \* the file system: path -> content
    input,    \* the line handed to process_command (NoLine: none)
    hbefore   \* history as it was when the current line was read

vars == <<kt, tables, query, result, before, nIns, nDel,
          history, files, input, hbefore>>

-----------------------------------------------------------------------------
(* Bounds and input alphabets                                               *)

\* Successful Inserts per table, in Spec and in SpecWide.
MaxOps == 2

\* Entries of the history, in SpecShell.
MaxHistory == 4
WideMaxOps == 3

TableNames == {"t", "u"}
Columns == {"id", "a"}
DataTypes == {"Bool", "Int", "Float", "String"}
KeyTypes == {"Int", "String"}
Operators == {"Equal", "NotEqual", "GreaterThan", "GreaterThanOrEqual",
              "LessThan", "LessThanOrEqual"}

IntV(n) == [tag |-> "Int", v |-> n]
StrV(s) == [tag |-> "String", v |-> s]
BoolV(b) == [tag |-> "Bool", v |-> b]
FloatV(t) == [tag |-> "Float", v |-> t]

\* 2 and 10: numeric order differs from the order of their texts "2", "10".
\* "ab" and "b": lexicographic order differs from length order.
Values == {IntV(2), IntV(10), StrV(<<97, 98>>), StrV(<<98>>), BoolV(TRUE),
           FloatV(15)}

-----------------------------------------------------------------------------
(* domain.rs: Value                                                         *)

\* Position of the variant in the enum declaration; derive(PartialOrd)
\* orders values of different variants by it.
VariantIndex(tag) ==
    CASE tag = "Int" -> 0
      [] tag = "String" -> 1
      [] tag = "Bool" -> 2
      [] tag = "Float" -> 3

\* str/String Ord: byte-wise lexicographic.
StrLess(a, b) ==
    \E i \in 1..Len(b) :
        /\ Len(a) >= i - 1
        /\ \A j \in 1..(i - 1) : a[j] = b[j]
        /\ (Len(a) = i - 1 \/ a[i] < b[i])

\* Ordering of two payloads of the same variant.
PayloadLess(tag, x, y) ==
    CASE tag = "Int" -> x < y
      [] tag = "String" -> StrLess(x, y)
      [] tag = "Bool" -> (x = FALSE /\ y = TRUE)
      [] tag = "Float" -> x < y

\* derive(PartialEq): same variant and same payload.
ValueEq(a, b) == a.tag = b.tag /\ a.v = b.v

\* derive(PartialOrd)::partial_cmp: the variant index decides first, the
\* payload only between two values of the same variant.
partial_cmp(a, b) ==
    IF a.tag # b.tag
    THEN (IF VariantIndex(a.tag) < VariantIndex(b.tag) THEN "Less" ELSE "Greater")
    ELSE IF a.v = b.v THEN "Equal"
    ELSE IF PayloadLess(a.tag, a.v, b.v) THEN "Less" ELSE "Greater"

RECURSIVE Digits(_)
Digits(n) == IF n < 10 THEN <<48 + n>> ELSE Digits(n \div 10) \o <<48 + (n % 10)>>

\* impl Display for Value
Display(val) ==
    CASE val.tag = "Int" ->
            IF val.v < 0 THEN <<45>> \o Digits(0 - val.v) ELSE Digits(val.v)
      [] val.tag = "String" -> val.v
      [] val.tag = "Bool" ->
            IF val.v THEN <<116, 114, 117, 101>> ELSE <<102, 97, 108, 115, 101>>
      [] val.tag = "Float" ->
            LET abs == IF val.v < 0 THEN 0 - val.v ELSE val.v
                sign == IF val.v < 0 THEN <<45>> ELSE <<>>
                frac == IF abs % 10 = 0 THEN <<>> ELSE <<46, 48 + (abs % 10)>>
            IN sign \o Digits(abs \div 10) \o frac

-----------------------------------------------------------------------------
(* error.rs: DbResult                                                       *)

\* Ok(()) of DbResult<()>
OkUnit == [ok |-> TRUE, err |-> "", arg |-> <<>>, msg |-> "", text |-> <<>>]

\* Ok(Some(..)) of DbResult<Option<String>>: a fixed confirmation message
\* (msg, with its argument arg) or the text of a Select.
OkSome(m, a, t) == [ok |-> TRUE, err |-> "", arg |-> a, msg |-> m, text |-> t]

\* Err(DbError::e(a))
Err(e, a) == [ok |-> FALSE, err |-> e, arg |-> a, msg |-> "", text |-> <<>>]

-----------------------------------------------------------------------------
(* domain.rs: Record, DatabaseKey                                           *)

\* Iterator::collect into a HashMap: a later pair replaces an earlier pair
\* with the same key.
Collect(pairs) ==
    [c \in {pairs[i][1] : i \in DOMAIN pairs} |->
        LET last == CHOOSE i \in DOMAIN pairs :
                        /\ pairs[i][1] = c
                        /\ \A j \in DOMAIN pairs : pairs[j][1] = c => j <= i
        IN pairs[last][2]]

\* check_type with an extra arm (Value::Int(_), DataType::Float) => true.
check_type_Widening(val, col_type) ==
    IF val.tag = col_type \/ (val.tag = "Int" /\ col_type = "Float")
    THEN OkUnit ELSE Err("TypeMismatch", <<"Invalid type">>)

check_type(val, col_type) ==
    IF val.tag = col_type THEN OkUnit ELSE Err("TypeMismatch", <<"Invalid type">>)

\* All orders in which a HashMap with key set S can be iterated.
Orders(S) ==
    {o \in [1..Cardinality(S) -> S] : \A i, j \in DOMAIN o : o[i] = o[j] => i = j}

\* The loop of Record::validate over the schema in the order `order`,
\* from position i: the first failing column decides.
RECURSIVE ValidateFrom(_, _, _, _)
ValidateFrom(order, i, fields, schema) ==
    IF i > Len(order) THEN OkUnit
    ELSE LET col_name == order[i] IN
         IF col_name \notin DOMAIN fields
         THEN Err("ColumnNotFound", <<col_name>>)
         ELSE LET r == check_type(fields[col_name], schema[col_name]) IN
              IF r.ok THEN ValidateFrom(order, i + 1, fields, schema) ELSE r

\* Record::validate: the set of results it can return.
validate(fields, schema) ==
    {ValidateFrom(o, 1, fields, schema) : o \in Orders(DOMAIN schema)}

None == [some |-> FALSE]

\* from_value for i64 that also takes a Float, truncated (`*f as i64`).
from_value_FloatCast(K, val) ==
    IF val.tag = K THEN [some |-> TRUE, key |-> val.v]
    ELSE IF K = "Int" /\ val.tag = "Float"
    THEN [some |-> TRUE, key |-> val.v \div 10]
    ELSE [some |-> FALSE]

\* from_value that takes the payload of any value for a key.
from_value_AnyValue(K, val) == [some |-> TRUE, key |-> val.v]

\* DatabaseKey::from_value for K = i64 ("Int") and K = String ("String").
from_value(K, val) ==
    IF val.tag = K THEN [some |-> TRUE, key |-> val.v] ELSE None

\* Ord of the key type K.
KeyLess(K, a, b) == IF K = "Int" THEN a < b ELSE StrLess(a, b)

-----------------------------------------------------------------------------
(* database.rs: Table                                                       *)

TableNew(name, schema, pk_name) ==
    [name |-> name, schema |-> schema, pk_name |-> pk_name,
     store |-> [k \in {} |-> 0]]

\* BTreeMap::insert(key, record)
StorePut(store, key, record) ==
    [k \in DOMAIN store \cup {key} |-> IF k = key THEN record ELSE store[k]]

\* BTreeMap::remove(key)
StoreRemove(store, key) == [k \in DOMAIN store \ {key} |-> store[k]]

\* Table::insert without the contains_key check: BTreeMap::insert replaces.
InsertAfter_Overwrite(K, table, record, vr) ==
    IF ~vr.ok THEN [table |-> table, res |-> vr]
    ELSE IF table.pk_name \notin DOMAIN record
    THEN [table |-> table,
          res |-> Err("ColumnNotFound", <<"Primary key ", table.pk_name, " not found">>)]
    ELSE LET key == from_value(K, record[table.pk_name]) IN
         IF ~key.some THEN [table |-> table, res |-> Err("KeyMismatch", <<>>)]
         ELSE [table |-> [table EXCEPT !.store = StorePut(@, key.key, record)],
               res |-> OkUnit]

\* Table::insert taking the key from the column "id" instead of pk_name.
InsertAfter_IdKey(K, table, record, vr) ==
    IF ~vr.ok THEN [table |-> table, res |-> vr]
    ELSE IF "id" \notin DOMAIN record
    THEN [table |-> table,
          res |-> Err("ColumnNotFound", <<"Primary key ", table.pk_name, " not found">>)]
    ELSE LET key == from_value(K, record["id"]) IN
         IF ~key.some THEN [table |-> table, res |-> Err("KeyMismatch", <<>>)]
         ELSE IF key.key \in DOMAIN table.store
         THEN [table |-> table, res |-> Err("DuplicateKey", <<>>)]
         ELSE [table |-> [table EXCEPT !.store = StorePut(@, key.key, record)],
               res |-> OkUnit]

\* Table::insert looking at the key before the result of the validation.
InsertAfter_KeyFirst(K, table, record, vr) ==
    IF table.pk_name \notin DOMAIN record
    THEN [table |-> table,
          res |-> Err("ColumnNotFound", <<"Primary key ", table.pk_name, " not found">>)]
    ELSE LET key == from_value(K, record[table.pk_name]) IN
         IF ~key.some THEN [table |-> table, res |-> Err("KeyMismatch", <<>>)]
         ELSE IF key.key \in DOMAIN table.store
         THEN [table |-> table, res |-> Err("DuplicateKey", <<>>)]
         ELSE IF ~vr.ok THEN [table |-> table, res |-> vr]
         ELSE [table |-> [table EXCEPT !.store = StorePut(@, key.key, record)],
               res |-> OkUnit]

\* Table::insert dropping the result of the validation (no `?`).
InsertAfter_IgnoreValidation(K, table, record, vr) ==
    IF table.pk_name \notin DOMAIN record
    THEN [table |-> table,
          res |-> Err("ColumnNotFound", <<"Primary key ", table.pk_name, " not found">>)]
    ELSE LET key == from_value(K, record[table.pk_name]) IN
         IF ~key.some THEN [table |-> table, res |-> Err("KeyMismatch", <<>>)]
         ELSE IF key.key \in DOMAIN table.store
         THEN [table |-> table, res |-> Err("DuplicateKey", <<>>)]
         ELSE [table |-> [table EXCEPT !.store = StorePut(@, key.key, record)],
               res |-> OkUnit]

\* Table::insert storing the record before it reports the duplicate.
InsertAfter_ReplaceThenFail(K, table, record, vr) ==
    IF ~vr.ok THEN [table |-> table, res |-> vr]
    ELSE IF table.pk_name \notin DOMAIN record
    THEN [table |-> table,
          res |-> Err("ColumnNotFound", <<"Primary key ", table.pk_name, " not found">>)]
    ELSE LET key == from_value(K, record[table.pk_name]) IN
         IF ~key.some THEN [table |-> table, res |-> Err("KeyMismatch", <<>>)]
         ELSE [table |-> [table EXCEPT !.store = StorePut(@, key.key, record)],
               res |-> IF key.key \in DOMAIN table.store
                       THEN Err("DuplicateKey", <<>>) ELSE OkUnit]

\* Table::insert from the point where validation has returned vr.
InsertAfter(K, table, record, vr) ==
    IF ~vr.ok THEN [table |-> table, res |-> vr]
    ELSE IF table.pk_name \notin DOMAIN record
    THEN [table |-> table,
          res |-> Err("ColumnNotFound", <<"Primary key ", table.pk_name, " not found">>)]
    ELSE LET key == from_value(K, record[table.pk_name]) IN
         IF ~key.some THEN [table |-> table, res |-> Err("KeyMismatch", <<>>)]
         ELSE IF key.key \in DOMAIN table.store
         THEN [table |-> table, res |-> Err("DuplicateKey", <<>>)]
         ELSE [table |-> [table EXCEPT !.store = StorePut(@, key.key, record)],
               res |-> OkUnit]

\* Table::insert: the outcomes [table, res] it can produce.
insert(K, table, record) ==
    {InsertAfter(K, table, record, vr) : vr \in validate(record, table.schema)}

\* Table::delete: the table afterwards and the removed record, if any.
delete(table, key) ==
    IF key \in DOMAIN table.store
    THEN [table |-> [table EXCEPT !.store = StoreRemove(@, key)],
          removed |-> [some |-> TRUE, record |-> table.store[key]]]
    ELSE [table |-> table, removed |-> None]

RECURSIVE Ascending(_, _)
Ascending(K, S) ==
    IF S = {} THEN <<>>
    ELSE LET m == CHOOSE k \in S : \A o \in S \ {k} : KeyLess(K, k, o)
         IN <<m>> \o Ascending(K, S \ {m})

\* Table::scan yielding the records in descending key order.
scan_Descending(K, table) ==
    LET ks == Ascending(K, DOMAIN table.store)
    IN [i \in 1..Len(ks) |-> table.store[ks[Len(ks) + 1 - i]]]

\* Table::scan: the stored records in ascending key order.
scan(K, table) ==
    LET ks == Ascending(K, DOMAIN table.store)
    IN [i \in 1..Len(ks) |-> table.store[ks[i]]]

-----------------------------------------------------------------------------
(* database.rs: Database                                                    *)

\* create_table that replaces the table of the same name and then reports
\* the collision.
create_table_Replace(db, table) ==
    [tables |-> [n \in DOMAIN db \cup {table.name} |->
                    IF n = table.name THEN table ELSE db[n]],
     res |-> IF table.name \notin DOMAIN db THEN OkUnit
             ELSE Err("TableAlreadyExists", <<"Table already exists">>)]

\* create_table without the contains_key check: HashMap::insert replaces.
create_table_Overwrite(db, table) ==
    [tables |-> [n \in DOMAIN db \cup {table.name} |->
                    IF n = table.name THEN table ELSE db[n]],
     res |-> OkUnit]

\* Database::create_table
create_table(db, table) ==
    IF table.name \notin DOMAIN db
    THEN [tables |-> [n \in DOMAIN db \cup {table.name} |->
                         IF n = table.name THEN table ELSE db[n]],
          res |-> OkUnit]
    ELSE [tables |-> db,
          res |-> Err("TableAlreadyExists", <<"Table already exists">>)]

\* get_table handing out a fresh empty table for an unknown name.
get_table_Default(db, name) ==
    IF name \in DOMAIN db
    THEN [res |-> OkUnit, table |-> db[name]]
    ELSE [res |-> OkUnit, table |-> TableNew(name, [c \in {} |-> "Int"], "id")]

\* Database::get_table and Database::get_table_mut
get_table(db, name) ==
    IF name \in DOMAIN db
    THEN [res |-> OkUnit, table |-> db[name]]
    ELSE [res |-> Err("TableNotFound", <<name>>)]

-----------------------------------------------------------------------------
(* commands.rs                                                              *)

evaluate_condition(value1, value2, operator) ==
    CASE operator = "Equal" -> ValueEq(value1, value2)
      [] operator = "NotEqual" -> ~ValueEq(value1, value2)
      [] operator = "GreaterThan" -> partial_cmp(value1, value2) = "Greater"
      [] operator = "GreaterThanOrEqual" ->
            partial_cmp(value1, value2) \in {"Greater", "Equal"}
      [] operator = "LessThan" -> partial_cmp(value1, value2) = "Less"
      [] operator = "LessThanOrEqual" ->
            partial_cmp(value1, value2) \in {"Less", "Equal"}

\* [String]::join(sep)
RECURSIVE Join(_, _)
Join(strs, sep) ==
    IF Len(strs) = 0 THEN <<>>
    ELSE IF Len(strs) = 1 THEN strs[1]
    ELSE strs[1] \o sep \o Join(Tail(strs), sep)

CommaSpace == <<44, 32>>
Newline == <<10>>

\* The inner loop leaving out a requested field the record lacks.
RECURSIVE ProjectFrom_Skip(_, _, _, _)
ProjectFrom_Skip(record, fields, j, row_strings) ==
    IF j > Len(fields) THEN [res |-> OkUnit, row_strings |-> row_strings]
    ELSE IF fields[j] \notin DOMAIN record
    THEN ProjectFrom_Skip(record, fields, j + 1, row_strings)
    ELSE ProjectFrom_Skip(record, fields, j + 1,
                          Append(row_strings, Display(record[fields[j]])))

\* The inner loop of SelectCommand::execute over the requested fields, from
\* position j with the strings pushed so far.
RECURSIVE ProjectFrom(_, _, _, _)
ProjectFrom(record, fields, j, row_strings) ==
    IF j > Len(fields) THEN [res |-> OkUnit, row_strings |-> row_strings]
    ELSE IF fields[j] \notin DOMAIN record
    THEN [res |-> Err("ColumnNotFound", <<fields[j]>>), row_strings |-> row_strings]
    ELSE ProjectFrom(record, fields, j + 1,
                     Append(row_strings, Display(record[fields[j]])))

\* The outer loop of SelectCommand::execute over the scanned records, from
\* position i with the rows pushed so far.
RECURSIVE SelectFrom(_, _, _, _, _)
SelectFrom(recs, i, fields, condition, rows) ==
    IF i > Len(recs) THEN OkSome("Rows", <<>>, Join(rows, Newline))
    ELSE LET record == recs[i] IN
         IF condition.some /\ condition.column \notin DOMAIN record
         THEN Err("ColumnNotFound", <<condition.column>>)
         ELSE IF condition.some
                 /\ ~evaluate_condition(record[condition.column],
                                        condition.value, condition.operator)
         THEN SelectFrom(recs, i + 1, fields, condition, rows)
         ELSE LET p == ProjectFrom(record, fields, 1, <<>>) IN
              IF ~p.res.ok THEN p.res
              ELSE SelectFrom(recs, i + 1, fields, condition,
                              Append(rows, Join(p.row_strings, CommaSpace)))

\* SelectCommand::execute that never evaluates the condition.
SelectExecute_NoFilter(K, table, fields, condition) ==
    SelectFrom(scan(K, table), 1, fields, None, <<>>)

\* SelectCommand::execute
SelectExecute(K, table, fields, condition) ==
    SelectFrom(scan(K, table), 1, fields, condition, <<>>)

\* CreateTableCommand::execute
CreateExecute(db, name, pk_name, schema) ==
    LET c == create_table(db, TableNew(name, schema, pk_name)) IN
    IF ~c.res.ok THEN c
    ELSE [tables |-> c.tables, res |-> OkSome("Table created.", <<name>>, <<>>)]

\* InsertCommand::execute: the outcomes [table, res] it can produce.
InsertExecute(K, table, record) ==
    {IF ~o.res.ok THEN o
     ELSE [table |-> o.table, res |-> OkSome("Record inserted", <<>>, <<>>)] :
        o \in insert(K, table, record)}

\* DeleteCommand::execute treating an absent key as success.
DeleteExecute_Silent(table, key) ==
    LET d == delete(table, key) IN
    [table |-> d.table, res |-> OkSome("Deleted record", <<>>, <<>>)]

\* DeleteCommand::execute
DeleteExecute(table, key) ==
    LET d == delete(table, key) IN
    IF d.removed.some
    THEN [table |-> d.table, res |-> OkSome("Deleted record", <<>>, <<>>)]
    ELSE [table |-> d.table, res |-> Err("KeyMismatch", <<>>)]

-----------------------------------------------------------------------------
(* database.rs: run_generic_query, AnyDatabase::execute                     *)

\* Ok(None)
OkNone == [ok |-> TRUE, err |-> "", arg |-> <<>>, msg |-> "None", text |-> <<>>]

\* Every table of db replaced by t.
WithTable_Every(db, name, t) == [n \in DOMAIN db |-> t]

\* The table `name` of db replaced by t.
WithTable(db, name, t) == [n \in DOMAIN db |-> IF n = name THEN t ELSE db[n]]

\* run_generic_query::<K>: the outcomes [tables, res] it can produce.
run_generic_query(K, db, q) ==
    CASE q.op = "Create" ->
            {CreateExecute(db, q.table, q.pk, Collect(q.columns))}
      [] q.op = "Insert" ->
            LET g == get_table(db, q.table) IN
            IF ~g.res.ok THEN {[tables |-> db, res |-> g.res]}
            ELSE {[tables |-> WithTable(db, q.table, o.table), res |-> o.res] :
                    o \in InsertExecute(K, g.table, Collect(q.values))}
      [] q.op = "Select" ->
            LET g == get_table(db, q.table) IN
            IF ~g.res.ok THEN {[tables |-> db, res |-> g.res]}
            ELSE {[tables |-> db,
                   res |-> SelectExecute(K, g.table, q.fields, q.condition)]}
      [] q.op = "Delete" ->
            LET key == from_value(K, q.key_value) IN
            IF ~key.some THEN {[tables |-> db, res |-> Err("KeyMismatch", <<>>)]}
            ELSE LET g == get_table(db, q.table) IN
                 IF ~g.res.ok THEN {[tables |-> db, res |-> g.res]}
                 ELSE LET o == DeleteExecute(g.table, key.key) IN
                      {[tables |-> WithTable(db, q.table, o.table), res |-> o.res]}
      [] OTHER -> {[tables |-> db, res |-> OkNone]}

\* execute whose Select takes the records out of the store it scans.
execute_SelectDrains(variant, db, q) ==
    IF q.op = "Select" /\ q.table \in DOMAIN db
    THEN {[tables |-> WithTable(db, q.table,
                                [db[q.table] EXCEPT !.store = [k \in {} |-> 0]]),
           res |-> o.res] : o \in run_generic_query(variant, db, q)}
    ELSE run_generic_query(variant, db, q)

\* AnyDatabase::execute: dispatch on the variant kt.
execute(variant, db, q) ==
    IF variant = "Int" THEN run_generic_query("Int", db, q)
    ELSE run_generic_query("String", db, q)

-----------------------------------------------------------------------------
(* queries.rs: the parser                                                   *)

\* An input line is the sequence of its lexemes, white space left out.  A
\* lexeme has a lexical class k and a text: a word (keyword, identifier,
\* type name or path) or a symbol, with its text in s, or a literal of one
\* of the four classes of the grammar (int_w, float_w, bool_w, string_w),
\* with its text in b as a sequence of byte codes, quotes included.
W(s) == [k |-> "word", s |-> s, b |-> <<>>]
Sym(s) == [k |-> "sym", s |-> s, b |-> <<>>]
Lit(rule, b) == [k |-> rule, s |-> "", b |-> b]

\* pest::iterators::Pair: the rule matched, the text matched and the pairs
\* inside.
Pair(rule, s, inner) == [rule |-> rule, s |-> s, inner |-> inner]

\* Ok(v) and Err(DbError::e(m)) of the parsing functions.
POk(v) == [ok |-> TRUE, v |-> v, err |-> "", msg |-> ""]
PErr(e, m) == [ok |-> FALSE, v |-> <<>>, err |-> e, msg |-> m]

\* The grammar of the query language (section 4.1 of the design): ident,
\* value and the pairs they produce.
IsIdent(tok) == tok.k = "word"
IsValue(tok) == tok.k \in {"int_w", "float_w", "bool_w", "string_w"}
ident(tok) == Pair("ident", tok.s, <<>>)
value(tok) == Pair("value", tok.b, <<Pair(tok.k, tok.b, <<>>)>>)

Range(f) == {f[i] : i \in DOMAIN f}

\* item (, item)* with items of w lexemes: the grammar's repetitions.
IsList(ts, w) ==
    /\ Len(ts) % (w + 1) = w
    /\ \A i \in DOMAIN ts : (i % (w + 1) = 0) => ts[i] = Sym(",")
Items(ts, w) ==
    [j \in 1..((Len(ts) + 1) \div (w + 1)) |->
        SubSeq(ts, (j - 1) * (w + 1) + 1, (j - 1) * (w + 1) + w)]

\* The first position of tok in ts, 0 when there is none.
FirstIndex(ts, tok) ==
    IF \E i \in DOMAIN ts : ts[i] = tok
    THEN CHOOSE i \in DOMAIN ts :
            ts[i] = tok /\ \A j \in 1..(i - 1) : ts[j] # tok
    ELSE 0

NoMatch == [ok |-> FALSE, pair |-> Pair("", "", <<>>)]
Match(rule, inner) == [ok |-> TRUE, pair |-> Pair(rule, "", inner)]

\* SELECT <ident> (, <ident>)* FROM <ident> [WHERE <ident> <op> <value>]
select_cmd(ts) ==
    LET f == FirstIndex(ts, W("FROM"))
        fields == SubSeq(ts, 2, f - 1)
        rest == SubSeq(ts, f + 2, Len(ts))
    IN IF /\ f >= 3
          /\ Len(ts) > f
          /\ IsList(fields, 1)
          /\ \A it \in Range(Items(fields, 1)) : IsIdent(it[1])
          /\ IsIdent(ts[f + 1])
          /\ \/ Len(rest) = 0
             \/ /\ Len(rest) = 4
                /\ rest[1] = W("WHERE")
                /\ IsIdent(rest[2])
                /\ rest[3].k = "sym"
                /\ IsValue(rest[4])
       THEN Match("select_cmd",
                  [j \in 1..Len(Items(fields, 1)) |-> ident(Items(fields, 1)[j][1])]
                  \o <<ident(ts[f + 1])>>
                  \o IF Len(rest) = 0 THEN <<>>
                     ELSE <<Pair("where_clause", "",
                                 <<ident(rest[2]), Pair("op", rest[3].s, <<>>),
                                   value(rest[4])>>)>>)
       ELSE NoMatch

\* CREATE <ident> KEY <ident> FIELDS <ident>:<Type> (, <ident>:<Type>)*
create_cmd(ts) ==
    LET defs == SubSeq(ts, 6, Len(ts))
    IN IF /\ Len(ts) >= 8
          /\ IsIdent(ts[2])
          /\ ts[3] = W("KEY")
          /\ IsIdent(ts[4])
          /\ ts[5] = W("FIELDS")
          /\ IsList(defs, 3)
          /\ \A it \in Range(Items(defs, 3)) :
                IsIdent(it[1]) /\ it[2] = Sym(":") /\ it[3].k = "word"
       THEN Match("create_cmd",
                  <<ident(ts[2]), ident(ts[4])>>
                  \o [j \in 1..Len(Items(defs, 3)) |->
                        Pair("column_def", "",
                             <<ident(Items(defs, 3)[j][1]),
                               Pair("type", Items(defs, 3)[j][3].s, <<>>)>>)])
       ELSE NoMatch

\* INSERT <ident>=<value> (, <ident>=<value>)* INTO <ident>
insert_cmd(ts) ==
    LET asg == SubSeq(ts, 2, Len(ts) - 2)
    IN IF /\ Len(ts) >= 6
          /\ ts[Len(ts) - 1] = W("INTO")
          /\ IsIdent(ts[Len(ts)])
          /\ IsList(asg, 3)
          /\ \A it \in Range(Items(asg, 3)) :
                IsIdent(it[1]) /\ it[2] = Sym("=") /\ IsValue(it[3])
       THEN Match("insert_cmd",
                  [j \in 1..Len(Items(asg, 3)) |->
                        Pair("assigment", "",
                             <<ident(Items(asg, 3)[j][1]),
                               value(Items(asg, 3)[j][3])>>)]
                  \o <<ident(ts[Len(ts)])>>)
       ELSE NoMatch

\* DELETE <value> FROM <ident>
delete_cmd(ts) ==
    IF /\ Len(ts) = 4
       /\ IsValue(ts[2])
       /\ ts[3] = W("FROM")
       /\ IsIdent(ts[4])
    THEN Match("delete_cmd", <<value(ts[2]), ident(ts[4])>>)
    ELSE NoMatch

\* SAVE_AS <path>
save_cmd(ts) ==
    IF Len(ts) = 2 /\ ts[2].k = "word"
    THEN Match("save_cmd", <<Pair("path", ts[2].s, <<>>)>>)
    ELSE NoMatch

\* READ_FROM <path>
read_cmd(ts) ==
    IF Len(ts) = 2 /\ ts[2].k = "word"
    THEN Match("read_cmd", <<Pair("path", ts[2].s, <<>>)>>)
    ELSE NoMatch

\* QueryParser::parse(Rule::query, input): the six statement forms, told
\* apart by their first keyword.
QueryParser_parse(ts) ==
    IF Len(ts) = 0 THEN NoMatch
    ELSE IF ts[1] = W("SELECT") THEN select_cmd(ts)
    ELSE IF ts[1] = W("CREATE") THEN create_cmd(ts)
    ELSE IF ts[1] = W("INSERT") THEN insert_cmd(ts)
    ELSE IF ts[1] = W("DELETE") THEN delete_cmd(ts)
    ELSE IF ts[1] = W("SAVE_AS") THEN save_cmd(ts)
    ELSE IF ts[1] = W("READ_FROM") THEN read_cmd(ts)
    ELSE NoMatch

\* The decimal digits of i64::MAX and of the magnitude of i64::MIN.
I64MaxDigits ==
    <<57, 50, 50, 51, 51, 55, 50, 48, 51, 54, 56, 53, 52, 55, 55, 53, 56, 48, 55>>
I64MinDigits ==
    <<57, 50, 50, 51, 51, 55, 50, 48, 51, 54, 56, 53, 52, 55, 55, 53, 56, 48, 56>>

IsDigits(d) == Len(d) > 0 /\ \A i \in DOMAIN d : d[i] \in 48..57

RECURSIVE DecValue(_)
DecValue(d) ==
    IF Len(d) = 0 THEN 0
    ELSE DecValue(SubSeq(d, 1, Len(d) - 1)) * 10 + (d[Len(d)] - 48)

RECURSIVE StripZeros(_)
StripZeros(d) ==
    IF Len(d) > 1 /\ d[1] = 48 THEN StripZeros(Tail(d)) ELSE d

\* str::parse::<i64>: an optional sign and decimal digits; a number outside
\* i64 is an error.
parse_i64(s) ==
    LET signed == Len(s) > 0 /\ s[1] \in {43, 45}
        neg == Len(s) > 0 /\ s[1] = 45
        d == IF signed THEN Tail(s) ELSE s
        m == StripZeros(d)
        limit == IF neg THEN I64MinDigits ELSE I64MaxDigits
    IN IF ~IsDigits(d) THEN PErr("ParseIntError", "invalid digit")
       ELSE IF Len(m) > 19 \/ (Len(m) = 19 /\ StrLess(limit, m))
       THEN PErr("ParseIntError", "out of range")
       ELSE POk(IF neg THEN 0 - DecValue(m) ELSE DecValue(m))

\* str::parse::<f64> on a decimal with a fractional part, in tenths: the
\* float literals of the inputs have one fractional digit.
parse_f64(s) ==
    LET neg == Len(s) > 0 /\ s[1] = 45
        d == IF neg THEN Tail(s) ELSE s
        dot == FirstIndex(d, 46)
        whole == SubSeq(d, 1, dot - 1)
        frac == SubSeq(d, dot + 1, Len(d))
    IN IF dot = 0 \/ ~IsDigits(whole) \/ ~IsDigits(frac)
       THEN PErr("ParseFloatError", "invalid float literal")
       ELSE POk((IF neg THEN 0 - 1 ELSE 1)
                * (DecValue(whole) * 10 + (frac[1] - 48)))

\* parse_value
parse_value(pair) ==
    IF Len(pair.inner) = 0 THEN PErr("SyntaxError", "No value in VALUE")
    ELSE LET inner == pair.inner[1] IN
         IF inner.rule = "int_w"
         THEN IF parse_i64(inner.s).ok THEN POk(IntV(parse_i64(inner.s).v))
              ELSE PErr("SyntaxError", "Bad Int")
         ELSE IF inner.rule = "float_w"
         THEN IF parse_f64(inner.s).ok THEN POk(FloatV(parse_f64(inner.s).v))
              ELSE PErr("SyntaxError", "Bad Float")
         ELSE IF inner.rule = "bool_w"
         THEN POk(BoolV(inner.s = <<116, 114, 117, 101>>))
         ELSE IF inner.rule = "string_w"
         THEN IF Len(inner.s) >= 2
              THEN POk(StrV(SubSeq(inner.s, 2, Len(inner.s) - 1)))
              ELSE PErr("SyntaxError", "Bad string literal")
         ELSE PErr("SyntaxError", "Unknown type of the value")

\* parse_where
parse_where(pair) ==
    LET inner == pair.inner IN
    IF Len(inner) < 1 THEN PErr("SyntaxError", "No column in WHERE")
    ELSE IF Len(inner) < 2 THEN PErr("SyntaxError", "No operator")
    ELSE IF Len(inner) < 3 THEN PErr("SyntaxError", "No value in WHERE")
    ELSE LET val == parse_value(inner[3])
             op == inner[2].s
         IN IF ~val.ok THEN val
            ELSE IF op \notin {"=", "!=", "<=", ">=", "<", ">"}
            THEN PErr("SyntaxError", "Invalid operator")
            ELSE POk([some |-> TRUE,
                      column |-> inner[1].s,
                      operator |-> CASE op = "=" -> "Equal"
                                     [] op = "!=" -> "NotEqual"
                                     [] op = "<=" -> "LessThanOrEqual"
                                     [] op = ">=" -> "GreaterThanOrEqual"
                                     [] op = "<" -> "LessThan"
                                     [] op = ">" -> "GreaterThan",
                      value |-> val.v])

\* The least index of a failed result in rs, 0 when all are Ok: where a
\* loop whose body ends in `?` returns.
FirstErr(rs) ==
    IF \E i \in DOMAIN rs : ~rs[i].ok
    THEN CHOOSE i \in DOMAIN rs : ~rs[i].ok /\ \A j \in 1..(i - 1) : rs[j].ok
    ELSE 0

\* parse_select_command
parse_select_command(pair) ==
    LET idents == SelectSeq(pair.inner, LAMBDA p : p.rule = "ident")
        wheres == SelectSeq(pair.inner, LAMBDA p : p.rule = "where_clause")
        conds == [i \in DOMAIN wheres |-> parse_where(wheres[i])]
    IN IF FirstErr(conds) # 0 THEN conds[FirstErr(conds)]
       ELSE IF Len(idents) = 0 THEN PErr("SyntaxError", "No table in SELECT")
       ELSE POk([op |-> "Select",
                 table |-> idents[Len(idents)].s,
                 fields |-> [i \in 1..(Len(idents) - 1) |-> idents[i].s],
                 condition |-> IF Len(conds) = 0 THEN None
                               ELSE conds[Len(conds)].v])

\* A column definition whose unknown type name is taken for String.
column_def_DefaultString(pair) ==
    LET definition == pair.inner IN
    IF Len(definition) < 1 THEN PErr("SyntaxError", "No name for column in CREATE")
    ELSE IF Len(definition) < 2 THEN PErr("SyntaxError", "No type in CREATE")
    ELSE IF definition[2].s \notin {"Int", "Float", "Bool", "String"}
    THEN POk(<<definition[1].s, "String">>)
    ELSE POk(<<definition[1].s, definition[2].s>>)

\* One column definition of parse_create_command.
column_def(pair) ==
    LET definition == pair.inner IN
    IF Len(definition) < 1 THEN PErr("SyntaxError", "No name for column in CREATE")
    ELSE IF Len(definition) < 2 THEN PErr("SyntaxError", "No type in CREATE")
    ELSE IF definition[2].s \notin {"Int", "Float", "Bool", "String"}
    THEN PErr("SyntaxError", "Unknown type in CREATE")
    ELSE POk(<<definition[1].s, definition[2].s>>)

\* parse_create_command
parse_create_command(pair) ==
    LET inner == pair.inner
        cols == [i \in 1..(Len(inner) - 2) |-> column_def(inner[i + 2])]
    IN IF Len(inner) < 1 THEN PErr("SyntaxError", "No table in CREATE")
       ELSE IF Len(inner) < 2 THEN PErr("SyntaxError", "No primary key in CREATE")
       ELSE IF FirstErr(cols) # 0 THEN cols[FirstErr(cols)]
       ELSE POk([op |-> "Create",
                 table |-> inner[1].s,
                 pk |-> inner[2].s,
                 columns |-> [i \in DOMAIN cols |-> cols[i].v]])

\* parse_delete_command
parse_delete_command(pair) ==
    LET inner == pair.inner IN
    IF Len(inner) < 1 THEN PErr("SyntaxError", "No value in DELETE")
    ELSE IF Len(inner) < 2 THEN PErr("SyntaxError", "No table in DELETE")
    ELSE LET val == parse_value(inner[1]) IN
         IF ~val.ok THEN val
         ELSE POk([op |-> "Delete", table |-> inner[2].s, key_value |-> val.v])

\* One step of the loop of parse_insert_command: an assignment gives a
\* (column, value) pair, an identifier the table name.
assigment(p) ==
    IF p.rule = "assigment"
    THEN IF Len(p.inner) < 1 THEN PErr("SyntaxError", "No column name in INSERT")
         ELSE IF Len(p.inner) < 2 THEN PErr("SyntaxError", "No value in INSERT")
         ELSE LET val == parse_value(p.inner[2]) IN
              IF ~val.ok THEN val ELSE POk(<<p.inner[1].s, val.v>>)
    ELSE IF p.rule = "ident" THEN POk(p.s)
    ELSE PErr("SyntaxError", "Unknown syntax of INSERT")

\* parse_insert_command
parse_insert_command(pair) ==
    LET steps == [i \in DOMAIN pair.inner |-> assigment(pair.inner[i])]
        asg == {i \in DOMAIN pair.inner : pair.inner[i].rule = "assigment"}
        ids == {i \in DOMAIN pair.inner : pair.inner[i].rule = "ident"}
        Nth(n) == CHOOSE i \in asg : Cardinality({j \in asg : j <= i}) = n
        Last == CHOOSE i \in ids : \A j \in ids : j <= i
    IN IF FirstErr(steps) # 0 THEN steps[FirstErr(steps)]
       ELSE IF ids = {} THEN PErr("SyntaxError", "No table name in INSERT")
       ELSE POk([op |-> "Insert",
                 table |-> steps[Last].v,
                 values |-> [n \in 1..Cardinality(asg) |-> steps[Nth(n)].v]])

\* parse
parse(text) ==
    LET m == QueryParser_parse(text) IN
    IF ~m.ok THEN PErr("SyntaxError", "no rule of the grammar matches")
    ELSE IF m.pair.rule = "select_cmd" THEN parse_select_command(m.pair)
    ELSE IF m.pair.rule = "create_cmd" THEN parse_create_command(m.pair)
    ELSE IF m.pair.rule = "delete_cmd" THEN parse_delete_command(m.pair)
    ELSE IF m.pair.rule = "insert_cmd" THEN parse_insert_command(m.pair)
    ELSE IF m.pair.rule = "save_cmd"
    THEN IF Len(m.pair.inner) = 0 THEN PErr("InvalidPath", "No path")
         ELSE POk([op |-> "SaveAs", path |-> m.pair.inner[1].s])
    ELSE IF m.pair.rule = "read_cmd"
    THEN IF Len(m.pair.inner) = 0 THEN PErr("InvalidPath", "No path")
         ELSE POk([op |-> "ReadFrom", path |-> m.pair.inner[1].s])
    ELSE PErr("SyntaxError", "Invalid query format")

-----------------------------------------------------------------------------
(* main.rs: process_command                                                 *)

\* The content of a file is the sequence of the lexemes of its lines, NL
\* standing for "\n".
NL == [k |-> "nl", s |-> "", b |-> <<>>]

\* str::lines: the pieces between the "\n"; a final "\n" ends the last
\* line and opens no other.
RECURSIVE content_lines(_)
content_lines(content) ==
    IF Len(content) = 0 THEN <<>>
    ELSE LET n == FirstIndex(content, NL) IN
         IF n = 0 THEN <<content>>
         ELSE <<SubSeq(content, 1, n - 1)>>
              \o content_lines(SubSeq(content, n + 1, Len(content)))

\* fs::write: the file at path is created or replaced.
write(fs, path, content) ==
    [f \in DOMAIN fs \cup {path} |-> IF f = path THEN content ELSE fs[f]]

\* The last arm of process_command appending the line before it looks at
\* what execute returned.
Statement_PushFirst(K, st, line, q) ==
    { [st |-> [st EXCEPT
                !.tables = o.tables,
                !.history = Append(@, line),
                !.nIns = IF q.op = "Insert" /\ o.res.ok
                         THEN [@ EXCEPT ![q.table] = @ + 1] ELSE @,
                !.nDel = IF q.op = "Delete" /\ o.res.ok
                         THEN [@ EXCEPT ![q.table] = @ + 1] ELSE @],
       res |-> IF o.res.ok THEN OkUnit ELSE o.res] :
      o \in execute(K, st.tables, q) }

\* The last arm of process_command leaving a successful Delete out of the
\* history.
Statement_ForgetDelete(K, st, line, q) ==
    { [st |-> [st EXCEPT
                !.tables = o.tables,
                !.history = IF o.res.ok /\ q.op # "Delete"
                            THEN Append(@, line) ELSE @,
                !.nIns = IF q.op = "Insert" /\ o.res.ok
                         THEN [@ EXCEPT ![q.table] = @ + 1] ELSE @,
                !.nDel = IF q.op = "Delete" /\ o.res.ok
                         THEN [@ EXCEPT ![q.table] = @ + 1] ELSE @],
       res |-> IF o.res.ok THEN OkUnit ELSE o.res] :
      o \in execute(K, st.tables, q) }

\* The last arm of process_command: the query is executed; when execute
\* returns Ok the result is printed and the line appended to the history,
\* when it returns Err the `?` returns the error.  st is what the call
\* works on: the database, the history and the file system.
Statement(K, st, line, q) ==
    { [st |-> [st EXCEPT
                !.tables = o.tables,
                !.history = IF o.res.ok THEN Append(@, line) ELSE @,
                !.nIns = IF q.op = "Insert" /\ o.res.ok
                         THEN [@ EXCEPT ![q.table] = @ + 1] ELSE @,
                !.nDel = IF q.op = "Delete" /\ o.res.ok
                         THEN [@ EXCEPT ![q.table] = @ + 1] ELSE @],
       res |-> IF o.res.ok THEN OkUnit ELSE o.res] :
      o \in execute(K, st.tables, q) }

RECURSIVE process_command(_, _, _)
RECURSIVE ReadLines(_, _, _)

\* The loop of the ReadFrom arm going on to the next line when a line
\* fails.
ReadLines_Continue(K, st, ls) ==
    IF Len(ls) = 0 THEN {[st |-> st, res |-> OkUnit]}
    ELSE IF Len(Head(ls)) = 0 THEN ReadLines(K, st, Tail(ls))
    ELSE UNION { ReadLines(K, o.st, Tail(ls)) :
                 o \in process_command(K, st, Head(ls)) }

\* The loop of the ReadFrom arm over the lines ls of the file: blank lines
\* are skipped, the first line that fails ends the loop with its error.
ReadLines(K, st, ls) ==
    IF Len(ls) = 0 THEN {[st |-> st, res |-> OkUnit]}
    ELSE IF Len(Head(ls)) = 0 THEN ReadLines(K, st, Tail(ls))
    ELSE UNION { IF o.res.ok THEN ReadLines(K, o.st, Tail(ls)) ELSE {o} :
                 o \in process_command(K, st, Head(ls)) }

\* process_command: the outcomes [st, res] of one line.
process_command(K, st, line) ==
    LET p == parse(line) IN
    IF ~p.ok
    THEN {[st |-> st, res |-> Err("SyntaxError", <<p.err, p.msg>>)]}
    ELSE IF p.v.op = "SaveAs"
    THEN {[st |-> [st EXCEPT !.files =
                        write(@, p.v.path, Join(st.history, <<NL>>))],
           res |-> OkUnit]}
    ELSE IF p.v.op = "ReadFrom"
    THEN IF p.v.path \notin DOMAIN st.files
         THEN {[st |-> st, res |-> Err("IoError", <<p.v.path>>)]}
         ELSE ReadLines(K, st, content_lines(st.files[p.v.path]))
    ELSE Statement(K, st, line, p.v)

-----------------------------------------------------------------------------
(* Inputs                                                                   *)

SeqsUpTo(S, lo, hi) == UNION {[1..n -> S] : n \in lo..hi}

\* FIELDS lists of CREATE.  With KEY id or KEY a they give tables whose key
\* column is Int, String, Float, or not a column of the schema at all; the
\* last list names column a twice.
ColumnLists ==
    { << <<"id", "Int">>, <<"a", "String">> >>,
      << <<"id", "String">>, <<"a", "Float">> >>,
      << <<"id", "Int">> >>,
      << <<"a", "Bool">>, <<"a", "String">> >> }

\* Assignment lists of INSERT: rows for Int and for String keys, two rows
\* with the same key and different contents, rows with a missing column, a
\* surplus column, a value of the wrong variant (Int for Float), a column
\* assigned twice, and the empty row.
ValueLists ==
    { << <<"id", IntV(2)>>, <<"a", StrV(<<97, 98>>)>> >>,
      << <<"id", IntV(10)>>, <<"a", StrV(<<98>>)>> >>,
      << <<"id", IntV(2)>>, <<"a", StrV(<<98>>)>> >>,
      << <<"id", IntV(10)>> >>,
      << <<"id", StrV(<<97, 98>>)>>, <<"a", FloatV(15)>> >>,
      << <<"id", StrV(<<98>>)>>, <<"a", FloatV(15)>> >>,
      << <<"id", StrV(<<98>>)>>, <<"a", IntV(2)>> >>,
      << <<"a", StrV(<<97, 98>>)>> >>,
      << <<"id", IntV(10)>>, <<"id", IntV(2)>> >>,
      << >> }

FieldLists == {<<"id">>, <<"a">>, <<"a", "id">>}

\* Literals of WHERE: one Int and one String, each of which meets stored
\* values of its own and of other variants.
CondValues == {IntV(10), StrV(<<98>>)}
Conditions ==
    {None} \cup [some : {TRUE}, column : Columns, operator : Operators,
                 value : CondValues]

\* The same alphabets unrestricted, for one table.
WideTableNames == {"t"}
WideFieldLists == SeqsUpTo(Columns, 1, 2)
WideColumnLists == SeqsUpTo(Columns \X DataTypes, 1, 2)
WideValueLists == SeqsUpTo(Columns \X Values, 0, 2)
WideConditions ==
    {None} \cup [some : {TRUE}, column : Columns, operator : Operators,
                 value : Values]

CreateQueries ==
    [op : {"Create"}, table : TableNames, pk : Columns, columns : ColumnLists]
InsertQueries == [op : {"Insert"}, table : TableNames, values : ValueLists]
SelectQueries ==
    [op : {"Select"}, table : TableNames, fields : FieldLists,
     condition : Conditions]
DeleteQueries == [op : {"Delete"}, table : TableNames, key_value : Values]

WideCreateQueries ==
    [op : {"Create"}, table : WideTableNames, pk : Columns,
     columns : WideColumnLists]
WideInsertQueries ==
    [op : {"Insert"}, table : WideTableNames, values : WideValueLists]
WideSelectQueries ==
    [op : {"Select"}, table : WideTableNames, fields : WideFieldLists,
     condition : WideConditions]
WideDeleteQueries ==
    [op : {"Delete"}, table : WideTableNames, key_value : Values]

\* The lines typed in SpecShell, and the lines of its script files.
Text2 == <<50>>
Text10 == <<49, 48>>
TextTooBig ==
    <<57, 50, 50, 51, 51, 55, 50, 48, 51, 54, 56, 53, 52, 55, 55, 53, 56, 48, 56>>
TextAb == <<34, 97, 98, 34>>
TextB == <<34, 98, 34>>

LineCreateT ==
    <<W("CREATE"), W("t"), W("KEY"), W("id"), W("FIELDS"),
      W("id"), Sym(":"), W("Int"), Sym(","), W("a"), Sym(":"), W("String")>>
LineCreateU ==
    <<W("CREATE"), W("u"), W("KEY"), W("id"), W("FIELDS"),
      W("id"), Sym(":"), W("String")>>
LineInsert2 ==
    <<W("INSERT"), W("id"), Sym("="), Lit("int_w", Text2), Sym(","),
      W("a"), Sym("="), Lit("string_w", TextAb), W("INTO"), W("t")>>
LineInsert10 ==
    <<W("INSERT"), W("id"), Sym("="), Lit("int_w", Text10), Sym(","),
      W("a"), Sym("="), Lit("string_w", TextB), W("INTO"), W("t")>>
LineInsert10Again ==
    <<W("INSERT"), W("id"), Sym("="), Lit("int_w", Text10), Sym(","),
      W("a"), Sym("="), Lit("string_w", TextAb), W("INTO"), W("t")>>
LineInsertU ==
    <<W("INSERT"), W("id"), Sym("="), Lit("string_w", TextAb), W("INTO"), W("u")>>
LineSelect ==
    <<W("SELECT"), W("a"), Sym(","), W("id"), W("FROM"), W("t"),
      W("WHERE"), W("id"), Sym(">="), Lit("int_w", Text10)>>
LineDelete2 == <<W("DELETE"), Lit("int_w", Text2), W("FROM"), W("t")>>
LineDelete10 == <<W("DELETE"), Lit("int_w", Text10), W("FROM"), W("t")>>
LineSave == <<W("SAVE_AS"), W("f")>>
LineRead(path) == <<W("READ_FROM"), W(path)>>

\* CREATE TABLE without KEY keyword
LineNoKey ==
    <<W("CREATE"), W("TABLE"), W("without"), W("KEY"), W("keyword")>>
\* CREATE t id FIELDS id:Int
LineMissingKey ==
    <<W("CREATE"), W("t"), W("id"), W("FIELDS"), W("id"), Sym(":"), W("Int")>>
\* CREATE u KEY id FIELDS id:Integer
LineUnknownType ==
    <<W("CREATE"), W("u"), W("KEY"), W("id"), W("FIELDS"),
      W("id"), Sym(":"), W("Integer")>>
\* SELECT a FROM t WHERE id <> 2
LineUnknownOperator ==
    <<W("SELECT"), W("a"), W("FROM"), W("t"),
      W("WHERE"), W("id"), Sym("<>"), Lit("int_w", Text2)>>
\* INSERT id=9223372036854775808, a="b" INTO t
LineIntTooBig ==
    <<W("INSERT"), W("id"), Sym("="), Lit("int_w", TextTooBig), Sym(","),
      W("a"), Sym("="), Lit("string_w", TextB), W("INTO"), W("t")>>
\* DELETE 9223372036854775808 FROM t
LineDeleteTooBig == <<W("DELETE"), Lit("int_w", TextTooBig), W("FROM"), W("t")>>
\* DELETE FROM t
LineDeleteNoValue == <<W("DELETE"), W("FROM"), W("t")>>
\* SAVE_AS
LineSaveNoPath == <<W("SAVE_AS")>>
\* DROP t
LineDrop == <<W("DROP"), W("t")>>

StatementLines ==
    {LineCreateT, LineCreateU, LineInsert2, LineInsert10, LineInsertU,
     LineSelect, LineDelete2}
RejectedLines ==
    {LineNoKey, LineMissingKey, LineUnknownType, LineUnknownOperator,
     LineIntTooBig, LineDeleteTooBig, LineDeleteNoValue, LineSaveNoPath,
     LineDrop}
ShellLines ==
    StatementLines \cup RejectedLines
    \cup {LineSave, LineRead("f"), LineRead("g"), LineRead("h"),
          LineRead("k"), LineRead("x")}

\* The script files that exist when the program starts: g runs through on
\* an empty Int database and has a blank line, h has a statement that
\* fails between two that do not, k reads g, saves the history and then has
\* a line the parser rejects.
InitFiles ==
    [f \in {"g", "h", "k"} |->
        CASE f = "g" -> LineCreateT \o <<NL, NL>> \o LineInsert2 \o <<NL>>
          [] f = "h" -> LineInsert10 \o <<NL>> \o LineInsert10Again
                        \o <<NL>> \o LineDelete10
          [] f = "k" -> LineRead("g") \o <<NL>> \o LineSave
                        \o <<NL>> \o LineIntTooBig \o <<NL>> \o LineDelete2]

-----------------------------------------------------------------------------
(* The read-execute loop                                                    *)

NoQuery == [op |-> "None"]
NoLine == <<>>
NoResult == [ok |-> TRUE, err |-> "", arg |-> <<>>, msg |-> "Idle", text |-> <<>>]

Init ==
    /\ kt \in KeyTypes
    /\ tables = [n \in {} |-> 0]
    /\ query = NoQuery
    /\ result = NoResult
    /\ before = tables
    /\ nIns = [n \in TableNames |-> 0]
    /\ nDel = [n \in TableNames |-> 0]
    /\ history = <<>>
    /\ files = InitFiles
    /\ input = NoLine
    /\ hbefore = history

\* AnyDatabase::execute is called with the Query q; a table takes at most
\* max successful Inserts.  The history and the files belong to main and
\* are not involved.
Run(q, max) ==
    /\ \E o \in execute(kt, tables, q) :
        /\ (q.op = "Insert" /\ o.res.ok) => nIns[q.table] < max
        /\ tables' = o.tables
        /\ result' = o.res
        /\ nIns' = IF q.op = "Insert" /\ o.res.ok
                   THEN [nIns EXCEPT ![q.table] = @ + 1] ELSE nIns
        /\ nDel' = IF q.op = "Delete" /\ o.res.ok
                   THEN [nDel EXCEPT ![q.table] = @ + 1] ELSE nDel
    /\ query' = q
    /\ before' = tables
    /\ UNCHANGED <<kt, history, files, input, hbefore>>

Create == query = NoQuery /\ \E q \in CreateQueries : Run(q, MaxOps)
Insert == query = NoQuery /\ \E q \in InsertQueries : Run(q, MaxOps)
Select == query = NoQuery /\ \E q \in SelectQueries : Run(q, MaxOps)
Delete == query = NoQuery /\ \E q \in DeleteQueries : Run(q, MaxOps)

\* The loop of main returns to its head: the line buffer is cleared and the
\* next line is awaited.
Prompt ==
    /\ query # NoQuery \/ input # NoLine
    /\ query' = NoQuery
    /\ input' = NoLine
    /\ result' = NoResult
    /\ before' = tables
    /\ hbefore' = history
    /\ UNCHANGED <<kt, tables, nIns, nDel, history, files>>

Next == Create \/ Insert \/ Select \/ Delete \/ Prompt

Spec == Init /\ [][Next]_vars

\* The same loop over one table and the unrestricted alphabets.
WideCreate == query = NoQuery /\ \E q \in WideCreateQueries : Run(q, WideMaxOps)
WideInsert == query = NoQuery /\ \E q \in WideInsertQueries : Run(q, WideMaxOps)
WideSelect == query = NoQuery /\ \E q \in WideSelectQueries : Run(q, WideMaxOps)
WideDelete == query = NoQuery /\ \E q \in WideDeleteQueries : Run(q, WideMaxOps)

NextWide == WideCreate \/ WideInsert \/ WideSelect \/ WideDelete \/ Prompt

SpecWide == Init /\ [][NextWide]_vars

\* The loop of main: a line is read and handed to process_command; the
\* history takes at most MaxHistory entries.
Command ==
    /\ input = NoLine
    /\ \E line \in ShellLines :
        \E o \in process_command(kt, [tables |-> tables, history |-> history,
                                      files |-> files, nIns |-> nIns,
                                      nDel |-> nDel], line) :
            /\ Len(o.st.history) <= MaxHistory
            /\ tables' = o.st.tables
            /\ history' = o.st.history
            /\ files' = o.st.files
            /\ nIns' = o.st.nIns
            /\ nDel' = o.st.nDel
            /\ result' = o.res
            /\ input' = line
            /\ query' = IF parse(line).ok THEN parse(line).v ELSE NoQuery
    /\ before' = tables
    /\ hbefore' = history
    /\ UNCHANGED kt

NextShell == Command \/ Prompt

SpecShell == Init /\ [][NextShell]_vars

-----------------------------------------------------------------------------
(* Properties                                                               *)

\* C1 as stated: an Insert whose primary-key value, coerced to the key type,
\* is already a key of the store returns DuplicateKey and leaves every table
\* as it was.
C1_DuplicateKeyWhateverTheRecord ==
    (query.op = "Insert" /\ query.table \in DOMAIN before) =>
        LET t == before[query.table]
            record == Collect(query.values)
        IN (/\ t.pk_name \in DOMAIN record
            /\ record[t.pk_name].tag = kt
            /\ record[t.pk_name].v \in DOMAIN t.store)
           => (result.err = "DuplicateKey" /\ tables = before)

\* C1 amended: an Insert whose primary-key value, coerced to the key type, is
\* already a key of the store fails and leaves every table as it was (the
\* existing record is not overwritten); the error is DuplicateKey when the
\* record has, for every column of the schema, a value of the declared
\* variant, and the error of the schema validation otherwise.
C1_DuplicateKeyRejected ==
    (query.op = "Insert" /\ query.table \in DOMAIN before) =>
        LET t == before[query.table]
            record == Collect(query.values)
            conforms == \A c \in DOMAIN t.schema :
                            c \in DOMAIN record /\ record[c].tag = t.schema[c]
        IN (/\ t.pk_name \in DOMAIN record
            /\ record[t.pk_name].tag = kt
            /\ record[t.pk_name].v \in DOMAIN t.store)
           => /\ ~result.ok
              /\ tables = before
              /\ conforms => result.err = "DuplicateKey"
              /\ ~conforms => result.err \in {"ColumnNotFound", "TypeMismatch"}

\* A DuplicateKey for a record that differs from the one stored under its key.
C1_Witness ==
    /\ query.op = "Insert"
    /\ result.err = "DuplicateKey"
    /\ LET t == before[query.table]
           record == Collect(query.values)
       IN t.store[record[t.pk_name].v] # record

\* C2: every stored record has a primary-key field whose value, coerced to
\* the key type, is the key it is stored under, and no two stored records of
\* a table have the same primary-key value.
C2_KeyIsPrimaryKeyValue ==
    \A n \in DOMAIN tables :
        LET t == tables[n] IN
        /\ \A k \in DOMAIN t.store :
            /\ t.pk_name \in DOMAIN t.store[k]
            /\ t.store[k][t.pk_name].tag = kt
            /\ t.store[k][t.pk_name].v = k
        /\ \A k1, k2 \in DOMAIN t.store :
            k1 # k2 => t.store[k1][t.pk_name] # t.store[k2][t.pk_name]

\* A second record has just been stored in a table whose key column is "a"
\* while its records also carry a column "id" of the key type.
C2_Witness ==
    /\ query.op = "Insert"
    /\ result.ok
    /\ LET t == tables[query.table] IN
       /\ Cardinality(DOMAIN t.store) = 2
       /\ t.pk_name = "a"
       /\ \E k \in DOMAIN t.store :
            /\ "id" \in DOMAIN t.store[k]
            /\ t.store[k]["id"].tag = kt
            /\ t.store[k]["id"].v # k

\* C3: a statement that returns an error leaves the set of table names and
\* every table's schema, primary-key column and store as they were.
C3_ErrorLeavesTablesUnchanged ==
    (query # NoQuery /\ ~result.ok) => tables = before

\* A Delete failed on a table that holds records, next to a second table.
C3_Witness ==
    /\ query.op = "Delete"
    /\ ~result.ok
    /\ DOMAIN before = TableNames
    /\ DOMAIN before[query.table].store # {}

\* C4: scan yields as many records as there were successful Inserts minus
\* successful Deletes on the table, they are the stored records, and their
\* primary-key values are strictly ascending.
C4_ScanCountAndOrder ==
    \A n \in TableNames :
        IF n \in DOMAIN tables
        THEN LET t == tables[n]
                 s == scan(kt, t)
             IN /\ Len(s) = nIns[n] - nDel[n]
                /\ {s[i] : i \in DOMAIN s} = {t.store[k] : k \in DOMAIN t.store}
                /\ \A i, j \in DOMAIN s :
                    i < j => IF kt = "Int"
                             THEN s[i][t.pk_name].v < s[j][t.pk_name].v
                             ELSE StrLess(s[i][t.pk_name].v, s[j][t.pk_name].v)
        ELSE nIns[n] = 0 /\ nDel[n] = 0

\* Three Inserts and one Delete succeeded and a statement has since failed;
\* scan yields the two remaining records.
C4_Witness ==
    \E n \in DOMAIN tables :
        /\ nIns[n] = 3
        /\ nDel[n] = 1
        /\ Len(scan(kt, tables[n])) = 2
        /\ query # NoQuery
        /\ ~result.ok

\* C5: validate returns Ok exactly when every column of the schema is in the
\* record with a value of the declared variant; an error is ColumnNotFound
\* naming a schema column the record lacks, or TypeMismatch when some schema
\* column has a value of another variant.  Insert returns the error of the
\* validation whenever the validation fails.
C5_ValidateIffConforms ==
    (query.op = "Insert" /\ query.table \in DOMAIN before) =>
        LET schema == before[query.table].schema
            record == Collect(query.values)
            conforms == \A c \in DOMAIN schema :
                            c \in DOMAIN record /\ record[c].tag = schema[c]
        IN /\ \A r \in validate(record, schema) :
                /\ r.ok <=> conforms
                /\ ~r.ok =>
                    \/ /\ r.err = "ColumnNotFound"
                       /\ r.arg[1] \in DOMAIN schema \ DOMAIN record
                    \/ /\ r.err = "TypeMismatch"
                       /\ \E c \in DOMAIN schema \cap DOMAIN record :
                            record[c].tag # schema[c]
           /\ ~conforms =>
                /\ ~result.ok
                /\ \/ /\ result.err = "ColumnNotFound"
                      /\ result.arg[1] \in DOMAIN schema \ DOMAIN record
                   \/ /\ result.err = "TypeMismatch"
                      /\ \E c \in DOMAIN schema \cap DOMAIN record :
                            record[c].tag # schema[c]
           /\ conforms => result.err # "TypeMismatch"

\* An Int was offered for a column declared Float and rejected.
C5_Witness ==
    /\ query.op = "Insert"
    /\ query.table \in DOMAIN before
    /\ result.err = "TypeMismatch"
    /\ LET schema == before[query.table].schema
           record == Collect(query.values)
       IN \E c \in DOMAIN schema \cap DOMAIN record :
            /\ schema[c] = "Float"
            /\ record[c].tag = "Int"
            /\ \A d \in DOMAIN schema \ {c} :
                d \in DOMAIN record /\ record[d].tag = schema[d]

\* C6: a Delete of key k on a registered table returns KeyMismatch and leaves
\* the tables unchanged when k is not a key of the store; otherwise it
\* returns Ok, k is no longer a key, scan yields no record with that
\* primary-key value, and every other key keeps its record.
C6_DeleteAbsentOrPresent ==
    (/\ query.op = "Delete"
     /\ query.table \in DOMAIN before
     /\ query.key_value.tag = kt) =>
        LET k == query.key_value.v
            old == before[query.table].store
            t == tables[query.table]
            s == scan(kt, t)
        IN IF k \notin DOMAIN old
           THEN ~result.ok /\ result.err = "KeyMismatch" /\ tables = before
           ELSE /\ result.ok
                /\ DOMAIN t.store = DOMAIN old \ {k}
                /\ \A o \in DOMAIN t.store : t.store[o] = old[o]
                /\ \A i \in DOMAIN s : s[i][t.pk_name] # query.key_value

\* A record was deleted and the record under the other key remained.
C6_Witness ==
    /\ query.op = "Delete"
    /\ result.ok
    /\ DOMAIN before[query.table].store # {}
    /\ DOMAIN tables[query.table].store # {}

\* C7: Create of a registered name returns TableAlreadyExists and leaves the
\* tables unchanged; Create of an unregistered name returns Ok and registers
\* an empty table with the given primary-key column and the columns of the
\* given list, every other table unchanged.  Create fails in no other way.
C7_CreateCollisionOnly ==
    (query.op = "Create") =>
        IF query.table \in DOMAIN before
        THEN ~result.ok /\ result.err = "TableAlreadyExists" /\ tables = before
        ELSE /\ result.ok
             /\ DOMAIN tables = DOMAIN before \cup {query.table}
             /\ \A n \in DOMAIN before : tables[n] = before[n]
             /\ LET t == tables[query.table] IN
                /\ t.name = query.table
                /\ t.pk_name = query.pk
                /\ DOMAIN t.store = {}
                /\ DOMAIN t.schema =
                        {query.columns[i][1] : i \in DOMAIN query.columns}
                /\ \A c \in DOMAIN t.schema :
                        \E i \in DOMAIN query.columns :
                            query.columns[i] = <<c, t.schema[c]>>

\* A Create collided with a table that holds records and has another schema
\* or key column.
C7_Witness ==
    /\ query.op = "Create"
    /\ ~result.ok
    /\ DOMAIN before[query.table].store # {}
    /\ \/ before[query.table].pk_name # query.pk
       \/ before[query.table].schema # Collect(query.columns)

\* C8 as stated: every table's primary-key column is a column of its schema.
C8_PrimaryKeyIsSchemaColumn ==
    \A n \in DOMAIN tables : tables[n].pk_name \in DOMAIN tables[n].schema

\* C9 as stated: a stored value and a WHERE literal of different variants
\* satisfy none of =, <, <=, >, >=, and a Select with such a condition
\* returns no line for that record.
C9_CrossVariantNeverTrue ==
    (/\ query.op = "Select"
     /\ query.table \in DOMAIN before
     /\ query.condition.some
     /\ query.condition.operator # "NotEqual") =>
        LET store == before[query.table].store
            c == query.condition
        IN /\ \A k \in DOMAIN store :
                (c.column \in DOMAIN store[k] /\ store[k][c.column].tag # c.value.tag)
                    => ~evaluate_condition(store[k][c.column], c.value, c.operator)
           /\ (/\ result.ok
               /\ \A k \in DOMAIN store :
                    /\ c.column \in DOMAIN store[k]
                    /\ store[k][c.column].tag # c.value.tag)
              => result.text = <<>>

\* C10: a successful Select returns the lines of exactly the stored records
\* that satisfy the condition (all records without WHERE), in ascending key
\* order and separated by a newline, each line being the texts of the
\* requested columns in the requested order separated by ", "; without a
\* matching record the text is empty.
C10_SelectText ==
    (query.op = "Select" /\ result.ok) =>
        LET store == before[query.table].store
            c == query.condition
            matching == {k \in DOMAIN store :
                            c.some => evaluate_condition(store[k][c.column],
                                                         c.value, c.operator)}
            less(a, b) == IF kt = "Int" THEN a < b ELSE StrLess(a, b)
            nth(i) == CHOOSE k \in matching :
                        Cardinality({o \in matching : less(o, k)}) = i - 1
            line(k) == Join([j \in 1..Len(query.fields) |->
                                Display(store[k][query.fields[j]])], <<44, 32>>)
            lines == [i \in 1..Cardinality(matching) |-> line(nth(i))]
        IN /\ result.msg = "Rows"
           /\ result.text = Join(lines, <<10>>)
           /\ matching = {} => result.text = <<>>

\* Of two stored records one satisfied the condition; two columns were
\* requested.
C10_Witness ==
    /\ query.op = "Select"
    /\ result.ok
    /\ query.condition.some
    /\ Len(query.fields) = 2
    /\ query.fields[1] # query.fields[2]
    /\ LET store == before[query.table].store
           c == query.condition
       IN /\ Cardinality(DOMAIN store) = 2
          /\ Cardinality({k \in DOMAIN store :
                evaluate_condition(store[k][c.column], c.value, c.operator)}) = 1

\* C11: a Select on a registered table returns ColumnNotFound, and no text,
\* exactly when some stored record lacks the WHERE column or some record
\* that satisfies the condition lacks a requested column; the column named
\* is the WHERE column or a requested one, and no table changes.
C11_SelectMissingColumnAborts ==
    (query.op = "Select" /\ query.table \in DOMAIN before) =>
        LET store == before[query.table].store
            c == query.condition
            lacksWhere == c.some /\ \E k \in DOMAIN store :
                                        c.column \notin DOMAIN store[k]
            survives(k) == c.some =>
                            /\ c.column \in DOMAIN store[k]
                            /\ evaluate_condition(store[k][c.column],
                                                  c.value, c.operator)
            survivorLacks == \E k \in DOMAIN store :
                                /\ survives(k)
                                /\ \E j \in DOMAIN query.fields :
                                    query.fields[j] \notin DOMAIN store[k]
        IN IF lacksWhere \/ survivorLacks
           THEN /\ ~result.ok
                /\ result.err = "ColumnNotFound"
                /\ result.text = <<>>
                /\ \/ c.some /\ result.arg = <<c.column>>
                   \/ \E j \in DOMAIN query.fields : result.arg = <<query.fields[j]>>
                /\ tables = before
           ELSE result.ok

\* The record under the smaller key has every requested column, the record
\* under the larger key lacks one: the Select failed without text.
C11_Witness ==
    /\ query.op = "Select"
    /\ query.table \in DOMAIN before
    /\ ~query.condition.some
    /\ result.err = "ColumnNotFound"
    /\ LET store == before[query.table].store IN
       \E k1, k2 \in DOMAIN store :
            /\ KeyLess(kt, k1, k2)
            /\ \A j \in DOMAIN query.fields : query.fields[j] \in DOMAIN store[k1]
            /\ \E j \in DOMAIN query.fields : query.fields[j] \notin DOMAIN store[k2]

\* C12 as stated: a Select, Insert or Delete that names an unregistered table
\* returns TableNotFound, whatever key value or field list it carries, and
\* leaves the tables unchanged.
C12_UnknownTableAlwaysTableNotFound ==
    (query.op \in {"Select", "Insert", "Delete"} /\ query.table \notin DOMAIN before)
        => (result.err = "TableNotFound" /\ tables = before)

\* C12 amended: a Select, Insert or Delete that names an unregistered table
\* fails and leaves the tables unchanged; the error is TableNotFound, except
\* for a Delete whose key literal is not of the variant of the key type,
\* which returns KeyMismatch.
C12_UnknownTableFails ==
    (query.op \in {"Select", "Insert", "Delete"} /\ query.table \notin DOMAIN before)
        => /\ ~result.ok
           /\ tables = before
           /\ IF query.op = "Delete" /\ query.key_value.tag # kt
              THEN result.err = "KeyMismatch"
              ELSE result.err = "TableNotFound" /\ result.arg = <<query.table>>

\* An Insert named an unregistered table while the other table was registered
\* and held a record.
C12_Witness ==
    /\ query.op = "Insert"
    /\ result.err = "TableNotFound"
    /\ \E n \in DOMAIN before : DOMAIN before[n].store # {}

\* C13: a Value converts to a key exactly when its variant is that of the
\* key type.  A Delete whose key literal has another variant, and an Insert
\* into a registered table of a record that conforms to the schema and whose
\* primary-key value has another variant, return KeyMismatch and change no
\* table.
C13_KeyCoercion ==
    /\ \A K \in KeyTypes, val \in Values :
        /\ from_value(K, val).some <=> val.tag = K
        /\ from_value(K, val).some => from_value(K, val).key = val.v
    /\ (query.op = "Delete" /\ query.key_value.tag # kt)
        => (~result.ok /\ result.err = "KeyMismatch" /\ tables = before)
    /\ (query.op = "Insert" /\ query.table \in DOMAIN before) =>
        LET t == before[query.table]
            record == Collect(query.values)
            conforms == \A c \in DOMAIN t.schema :
                            c \in DOMAIN record /\ record[c].tag = t.schema[c]
        IN (/\ conforms
            /\ t.pk_name \in DOMAIN record
            /\ record[t.pk_name].tag # kt)
           => (~result.ok /\ result.err = "KeyMismatch" /\ tables = before)

\* An Insert was refused with KeyMismatch by a table that already holds a
\* record.
C13_Witness ==
    /\ query.op = "Insert"
    /\ result.err = "KeyMismatch"
    /\ DOMAIN before[query.table].store # {}

\* C16: Insert into a registered table decides in this order, the first
\* failing check giving the error and the tables staying as they were:
\* schema validation (ColumnNotFound naming a missing schema column, or
\* TypeMismatch), presence of the primary-key field (ColumnNotFound),
\* coercion of its value to the key type (KeyMismatch), uniqueness of the
\* key (DuplicateKey).  When all pass, the record is stored under its key:
\* one key more, every other key and every other table unchanged.
C16_InsertCheckOrder ==
    (query.op = "Insert" /\ query.table \in DOMAIN before) =>
        LET t == before[query.table]
            record == Collect(query.values)
            conforms == \A c \in DOMAIN t.schema :
                            c \in DOMAIN record /\ record[c].tag = t.schema[c]
            hasPk == t.pk_name \in DOMAIN record
        IN IF ~conforms
           THEN /\ tables = before
                /\ ~result.ok
                /\ \/ /\ result.err = "ColumnNotFound"
                      /\ Len(result.arg) = 1
                      /\ result.arg[1] \in DOMAIN t.schema \ DOMAIN record
                   \/ /\ result.err = "TypeMismatch"
                      /\ \E c \in DOMAIN t.schema \cap DOMAIN record :
                            record[c].tag # t.schema[c]
           ELSE IF ~hasPk
           THEN /\ tables = before
                /\ ~result.ok
                /\ result.err = "ColumnNotFound"
                /\ result.arg = <<"Primary key ", t.pk_name, " not found">>
           ELSE IF record[t.pk_name].tag # kt
           THEN tables = before /\ ~result.ok /\ result.err = "KeyMismatch"
           ELSE IF record[t.pk_name].v \in DOMAIN t.store
           THEN tables = before /\ ~result.ok /\ result.err = "DuplicateKey"
           ELSE LET k == record[t.pk_name].v
                    new == tables[query.table]
                IN /\ result.ok
                   /\ DOMAIN tables = DOMAIN before
                   /\ \A n \in DOMAIN before \ {query.table} : tables[n] = before[n]
                   /\ new.schema = t.schema
                   /\ new.pk_name = t.pk_name
                   /\ DOMAIN new.store = DOMAIN t.store \cup {k}
                   /\ new.store[k] = record
                   /\ \A o \in DOMAIN t.store : new.store[o] = t.store[o]

\* A record failed the validation and also carried a primary-key value
\* that is a key of the store already: the validation decided.
C16_Witness ==
    /\ query.op = "Insert"
    /\ query.table \in DOMAIN before
    /\ result.err = "TypeMismatch"
    /\ LET t == before[query.table]
           record == Collect(query.values)
       IN /\ t.pk_name \in DOMAIN record
          /\ record[t.pk_name].tag = kt
          /\ record[t.pk_name].v \in DOMAIN t.store

\* C17: every stored record has, for every column of its table's schema, a
\* value of the declared variant.
C17_StoredRecordsConform ==
    \A n \in DOMAIN tables :
        \A k \in DOMAIN tables[n].store :
            \A c \in DOMAIN tables[n].schema :
                /\ c \in DOMAIN tables[n].store[k]
                /\ tables[n].store[k][c].tag = tables[n].schema[c]

\* A record was stored in a table with two columns, one of them declared
\* Float.
C17_Witness ==
    /\ query.op = "Insert"
    /\ result.ok
    /\ LET t == tables[query.table] IN
       /\ DOMAIN t.schema = Columns
       /\ \E c \in Columns : t.schema[c] = "Float"
       /\ DOMAIN t.store # {}

\* C18: a registered table stays registered, and its name, schema and
\* primary-key column stay what they are, in every step.
C18_TablesAreForever ==
    [][\A n \in DOMAIN tables :
        /\ n \in DOMAIN tables'
        /\ tables'[n].name = tables[n].name
        /\ tables'[n].schema = tables[n].schema
        /\ tables'[n].pk_name = tables[n].pk_name]_vars

\* With both tables registered, a Create of a registered name with another
\* key column and another schema was executed.
C18_Witness ==
    /\ query.op = "Create"
    /\ DOMAIN before = TableNames
    /\ before[query.table].pk_name # query.pk
    /\ before[query.table].schema # Collect(query.columns)

\* C19: in every step every stored record stays under its key as it is,
\* unless the step is a successful Delete of that key on that table; and a
\* record appears under a key only by a successful Insert into that table,
\* and is then the record of that Insert.
C19_RecordsNeverMutated ==
    [][\A n \in DOMAIN tables :
        /\ n \in DOMAIN tables'
        /\ \A k \in DOMAIN tables[n].store :
            IF k \in DOMAIN tables'[n].store
            THEN tables'[n].store[k] = tables[n].store[k]
            ELSE /\ query'.op = "Delete"
                 /\ query'.table = n
                 /\ query'.key_value = [tag |-> kt, v |-> k]
                 /\ result'.ok
        /\ \A k \in DOMAIN tables'[n].store \ DOMAIN tables[n].store :
            /\ query'.op = "Insert"
            /\ query'.table = n
            /\ result'.ok
            /\ tables'[n].store[k] = Collect(query'.values)]_vars

\* An Insert failed on the key of a stored record from which it differs in
\* the value of a column both have.
C19_Witness ==
    /\ query.op = "Insert"
    /\ query.table \in DOMAIN before
    /\ ~result.ok
    /\ LET t == before[query.table]
           record == Collect(query.values)
       IN /\ t.pk_name \in DOMAIN record
          /\ record[t.pk_name].tag = kt
          /\ record[t.pk_name].v \in DOMAIN t.store
          /\ \E c \in DOMAIN record \cap DOMAIN t.store[record[t.pk_name].v] :
                record[c] # t.store[record[t.pk_name].v][c]

\* C20: a Select, successful or not, leaves every table as it was, and
\* executed again on the tables it left it can only return the result it
\* returned.
C20_SelectReadOnlyRepeatable ==
    (query.op = "Select") =>
        /\ tables = before
        /\ \A o \in execute(kt, tables, query) :
            o.tables = tables /\ o.res = result

\* A Select returned two lines.
C20_Witness ==
    /\ query.op = "Select"
    /\ result.ok
    /\ \E i \in DOMAIN result.text : result.text[i] = 10
    /\ Cardinality(DOMAIN before[query.table].store) = 2

\* C14: a line the parser rejects (no statement form matches it, a required
\* clause is missing, the operator or the type name is unknown, an integer
\* literal is outside i64) makes parse return SyntaxError, and makes
\* process_command return SyntaxError without a Query having been built or
\* executed: every table and the history are as they were.
C14_RejectedLineDoesNothing ==
    /\ \A l \in RejectedLines : ~parse(l).ok /\ parse(l).err = "SyntaxError"
    /\ (input \in RejectedLines) =>
        /\ ~result.ok
        /\ result.err = "SyntaxError"
        /\ query = NoQuery
        /\ tables = before
        /\ history = hbefore

\* With a record stored and the history not empty, an INSERT whose integer
\* literal is outside i64 was entered.
C14_Witness ==
    /\ input = LineIntTooBig
    /\ result.err = "SyntaxError"
    /\ history # <<>>
    /\ "t" \in DOMAIN tables
    /\ DOMAIN tables["t"].store # {}

\* The line parses to a Create, Insert, Select or Delete.
IsStatement(l) ==
    parse(l).ok /\ parse(l).v.op \in {"Create", "Insert", "Select", "Delete"}

\* The databases that executing the lines ls one after the other on db
\* gives, every one of them a statement that succeeds.
RECURSIVE ExecuteAll(_, _, _)
ExecuteAll(K, db, ls) ==
    IF Len(ls) = 0 THEN {db}
    ELSE IF ~IsStatement(Head(ls)) THEN {}
    ELSE UNION { ExecuteAll(K, o.tables, Tail(ls)) :
                 o \in {x \in execute(K, db, parse(Head(ls)).v) : x.res.ok} }

\* C15: the history only grows at its end, and what a line adds to it is
\* the statements that were executed successfully for that line, in the
\* order of execution: executing the added lines on the tables as they
\* were gives the tables as they are; a rejected line, a SAVE_AS, a
\* READ_FROM of a missing file and a failed statement add nothing, a
\* successful statement adds itself, and a READ_FROM of a script made of
\* statements adds the script's non-blank lines in file order up to the
\* first that fails, all of them exactly when it succeeds.  No entry of the
\* history is a SAVE_AS or a READ_FROM line.
C15_HistoryIsTheStatementsExecuted ==
    LET added == SubSeq(history, Len(hbefore) + 1, Len(history)) IN
    /\ Len(hbefore) <= Len(history)
    /\ SubSeq(history, 1, Len(hbefore)) = hbefore
    /\ \A i \in DOMAIN history : IsStatement(history[i])
    /\ tables \in ExecuteAll(kt, before, added)
    /\ (input # NoLine /\ ~parse(input).ok) => added = <<>>
    /\ (input # NoLine /\ IsStatement(input)) =>
            added = IF result.ok THEN <<input>> ELSE <<>>
    /\ (query.op = "SaveAs") => added = <<>>
    /\ (query.op = "ReadFrom") =>
            IF query.path \notin DOMAIN files THEN added = <<>>
            ELSE LET ls == SelectSeq(content_lines(files[query.path]),
                                     LAMBDA l : Len(l) > 0)
                 IN (\A i \in DOMAIN ls : IsStatement(ls[i])) =>
                        /\ Len(added) <= Len(ls)
                        /\ added = SubSeq(ls, 1, Len(added))
                        /\ result.ok <=> added = ls

\* With the history not empty, a READ_FROM of a script of two statements
\* and a blank line succeeded and added the two statements.
C15_Witness ==
    /\ query.op = "ReadFrom"
    /\ result.ok
    /\ hbefore # <<>>
    /\ Len(content_lines(files[query.path])) = 3
    /\ Len(history) = Len(hbefore) + 2

\* C21: an Insert or a Delete leaves the set of tables as it was, changes
\* of the table it names at most the store, and leaves every other table
\* as it was; a Create leaves every table of another name as it was.
C21_OtherTablesUntouched ==
    (query.op \in {"Create", "Insert", "Delete"}) =>
        /\ \A n \in DOMAIN before \ {query.table} :
                n \in DOMAIN tables /\ tables[n] = before[n]
        /\ (query.op \in {"Insert", "Delete"}) =>
                /\ DOMAIN tables = DOMAIN before
                /\ (query.table \in DOMAIN before) =>
                        /\ tables[query.table].name = before[query.table].name
                        /\ tables[query.table].schema = before[query.table].schema
                        /\ tables[query.table].pk_name = before[query.table].pk_name

\* A record was inserted into one table or deleted from it while the other
\* table held a record.
C21_Witness ==
    /\ query.op \in {"Insert", "Delete"}
    /\ result.ok
    /\ tables[query.table].store # before[query.table].store
    /\ \E n \in DOMAIN before \ {query.table} : DOMAIN before[n].store # {}

\* C22: executing the lines of the history one after the other on an empty
\* database of the same key type succeeds line by line and can only give
\* the tables as they are: the same names, schemas, primary-key columns and
\* stores.
C22_ReplayReproducesTables ==
    ExecuteAll(kt, [n \in {} |-> 0], history) = {tables}

\* The history holds a Create, Inserts and a Delete, and a record is stored.
C22_Witness ==
    /\ Len(history) >= 4
    /\ \E i \in DOMAIN history : parse(history[i]).v.op = "Delete"
    /\ \E n \in DOMAIN tables : DOMAIN tables[n].store # {}

\* C23: a READ_FROM of an existing file runs the non-blank lines of the
\* file in file order and stops at the first that fails.  For a script made
\* of statements: the history gains the first n lines of the script, the
\* tables are what executing these n lines on the tables as they were
\* gives, and either n is all of them and READ_FROM succeeds, or READ_FROM
\* returns an error that executing line n+1 on these tables returns, and
\* no later line has been executed.  For a script with a line the parser
\* rejects: READ_FROM fails, no statement after that line enters the
\* history, and what the earlier lines did stays.
C23_ReadFromStopsAtFirstFailure ==
    (query.op = "ReadFrom" /\ query.path \in DOMAIN files) =>
        LET ls == SelectSeq(content_lines(files[query.path]),
                            LAMBDA l : Len(l) > 0)
            n == Len(history) - Len(hbefore)
            added == SubSeq(history, Len(hbefore) + 1, Len(history))
            rejected == {i \in DOMAIN ls : ~parse(ls[i]).ok}
        IN /\ n >= 0
           /\ SubSeq(history, 1, Len(hbefore)) = hbefore
           /\ tables \in ExecuteAll(kt, before, added)
           /\ (\A i \in DOMAIN ls : IsStatement(ls[i])) =>
                /\ n <= Len(ls)
                /\ added = SubSeq(ls, 1, n)
                /\ IF n = Len(ls) THEN result.ok
                   ELSE /\ ~result.ok
                        /\ \E o \in execute(kt, tables, parse(ls[n + 1]).v) :
                                o.res = result /\ o.tables = tables
           /\ (rejected # {}) =>
                /\ ~result.ok
                /\ \A i \in rejected : \A j \in DOMAIN ls :
                        (j > i /\ IsStatement(ls[j])) =>
                            \A a \in DOMAIN added : added[a] # ls[j]

\* The second of three statements of a script failed on the key the first
\* had stored: the record of the first is in the store, its line in the
\* history.
C23_Witness ==
    /\ query.op = "ReadFrom"
    /\ query.path \in DOMAIN files
    /\ Len(content_lines(files[query.path])) = 3
    /\ result.err = "DuplicateKey"
    /\ Len(history) = Len(hbefore) + 1
    /\ DOMAIN tables["t"].store # DOMAIN before["t"].store

\* C24 as stated: an Insert into a registered table can return one result
\* only, whatever the order in which Record::validate visits the columns of
\* the schema: validate has one outcome for the record and the schema, and
\* executing the statement again on the tables as they were returns the
\* result it returned.
C24_ValidateIsAFunction ==
    (query.op = "Insert" /\ query.table \in DOMAIN before) =>
        /\ Cardinality(validate(Collect(query.values),
                                before[query.table].schema)) = 1
        /\ \A o \in execute(kt, before, query) : o.res = result

\* C25: a table whose schema declares its primary-key column with a type
\* other than the key type of the database holds no record; its CREATE
\* succeeded, and every INSERT into it fails with TypeMismatch,
\* ColumnNotFound or KeyMismatch and changes nothing.  Every stored record
\* has under the primary-key column a value of the variant of the key type,
\* which is the variant the schema declares for that column wherever the
\* schema declares it.
C25_MismatchedKeyTableStaysEmpty ==
    /\ \A n \in DOMAIN tables :
        LET t == tables[n] IN
        /\ (t.pk_name \in DOMAIN t.schema /\ t.schema[t.pk_name] # kt) =>
                DOMAIN t.store = {}
        /\ \A k \in DOMAIN t.store :
                /\ t.pk_name \in DOMAIN t.store[k]
                /\ t.store[k][t.pk_name].tag = kt
                /\ (t.pk_name \in DOMAIN t.schema) => t.schema[t.pk_name] = kt
    /\ (/\ query.op = "Create"
        /\ query.table \notin DOMAIN before
        /\ query.pk \in DOMAIN Collect(query.columns)
        /\ Collect(query.columns)[query.pk] # kt) =>
            /\ result.ok
            /\ query.table \in DOMAIN tables
            /\ tables[query.table].schema = Collect(query.columns)
    /\ (/\ query.op = "Insert"
        /\ query.table \in DOMAIN before
        /\ before[query.table].pk_name \in DOMAIN before[query.table].schema
        /\ before[query.table].schema[before[query.table].pk_name] # kt) =>
            /\ ~result.ok
            /\ result.err \in {"TypeMismatch", "ColumnNotFound", "KeyMismatch"}
            /\ tables = before

\* A record that conforms to the schema was offered to a table whose
\* primary-key column is declared with another type than the key type: the
\* coercion failed.
C25_Witness ==
    /\ query.op = "Insert"
    /\ query.table \in DOMAIN before
    /\ result.err = "KeyMismatch"
    /\ LET t == before[query.table]
           record == Collect(query.values)
       IN /\ t.pk_name \in DOMAIN t.schema
          /\ t.schema[t.pk_name] # kt
          /\ \A c \in DOMAIN t.schema :
                c \in DOMAIN record /\ record[c].tag = t.schema[c]

====
